---- MODULE Spec2Model ----
(***************************************************************************)
(* State-machine model of src/Main.py, a Streamlit dashboard: a cached     *)
(* generator of a monthly water-quality series, a year-range filter, the   *)
(* latest-reading metrics with their qualitative labels, and the script's  *)
(* rerun on every widget interaction.                                      *)
(*                                                                         *)
(* Numbers.  Python floats are modelled as exact fixed-point integers:     *)
(*   - pH, TDS, turbidity, dissolved oxygen and the noise draws are in     *)
(*     thousandths (7.5 is 7500, 150 mg/L is 150000);                      *)
(*   - the sub-scores and the quality score are in millionths              *)
(*     (100 is 100000000), so that every sub-score is a multiple of 4      *)
(*     and the mean of four is exact.                                      *)
(* Binary floating-point rounding is not modelled.                         *)
(***************************************************************************)
EXTENDS Integers, Sequences, FiniteSets, TLC

VARIABLES
    noise,          \* the values np.random.normal returns after np.random.seed(42)
    cache,          \* st.cache_data's entry for generate_water_quality_data: <<>> or <<Series>>
    slider_value,   \* widget state of the year-range slider (kept across reruns)
    selectbox_value,\* widget state of the parameter selectbox (kept across reruns)
    requested,      \* the thumb positions the user last asked the slider for
    df,             \* script variable df: <<>> before line 56 has run
    year_range,     \* script variable year_range: <<>> before line 60 has run
    filtered_df,    \* script variable filtered_df
    latest,         \* script variable latest: <<>> or <<row>>
    metrics,        \* the four st.metric deltas: <<>> or <<record>>
    parameter,      \* script variable parameter: <<>> or <<column name>>
    error,          \* the exception that ended the run, "none" when there is none
    pc              \* the script's position

vars == << noise, cache, slider_value, selectbox_value, requested, df, year_range,
           filtered_df, latest, metrics, parameter, error, pc >>

(***************************************************************************)
(* Bounds of the model.                                                    *)
(***************************************************************************)
\* number of noise sequences the draws are taken from
NProfiles == 2
\* how many years beyond the slider's ends a requested thumb position may lie
YearSlack == 2

(***************************************************************************)
(* The seasonal terms, amplitude * sin(i * frequency) for i = 0, 1, ...,   *)
(* in thousandths (entry k is the term of i = k - 1).                      *)
(***************************************************************************)
SinPh ==
    << 0, 20, 40, 59, 78, 96, 113, 129, 143, 157, 168, 178, 186, 193, 197, 199,
       200, 198, 195, 189, 182, 173, 162, 149, 135, 120, 103, 85, 67, 48, 28, 8,
       -12, -32, -51, -70, -89, -106, -122, -138, -151, -164, -174, -183, -190, -196, -199, -200,
       -199, -196, -192, -185, -177, -166, -155, -141, -126, -110, -93, -75, -56, -36, -17, 3,
       23, 43, 62, 81, 99, 116, 131, 146, 159, 170, 180, 188, 194, 198, 200, 200,
       198, 194, 188, 180, 171, 160, 147, 133, 117, 100, 82, 64, 45, 25, 5, -15,
       -35, -54, -73, -92, -109, -125, -140, -154, -166, -176, -185, -191, -196, -199, -200, -199,
       -196, -191, -184, -175, -165, -152, -139, -124, -107, -90, -72, -53, -33, -13, 7, 27,
       46, 65, 84, 102, 118, 134, 148, 161, 172, 181, 189, 194, 198, 200, 200, 197,
       193, 187, 179, 169, 158, 145, 130, 114, 97, 79, 61, 41, 22, 2, -18, -38,
       -58, -76, -94, -112, -128, -142, -156, -167, -178, -186, -192, -197, -199, -200, -199, -195,
       -190, -183, -173, -163, -150, -136, -121, -104, -87, -68, -49, -30, -10, 10, 30, 50,
       69, 87, 105, 121, 136, 150, 163, 174, 183, 190, 195, 199, 200, 199, 197, 192,
       186, 177, 167, 156, 142, 127, 111, 94, 76, 57, 38, 18, -2, -22, -41, -61,
       -80, -97, -114, -130, -145, -158, -169, -179, -187, -193, -197, -200, -200, -198, -194, -189,
       -181, -172, -161, -148, -134, -118, -102, -84, -65, -46, -26, -7, 13, 33, 53, 72,
       90, 107, 124, 139, 153, 165, 175, 184, 191, 196, 199, 200, 199, 196, 191, 184,
       176, 165, 153, 140, 125, 109, 91, 73, 54, 35, 15, -5, -25, -45, -64, -83,
       -100, -117, -133, -147, -160, -171, -181, -188, -194, -198, -200, -200, -198, -194, -188, -180,
       -170, -159, -146, -131, -116, -99, -81, -62 >>

SinTds ==
    << 0, 4483, 8866, 13049, 16939, 20449, 23500, 26023, 27961, 29272, 29925, 29906, 29215, 27869, 25896, 23342,
       20264, 16731, 12821, 8624, 4234, -252, -4732, -9106, -13276, -17147, -20633, -23656, -26147, -28052, -29326, -29942,
       -29885, -29157, -27774, -25768, -23183, -20077, -16521, -12593, -8382, -3984, 504, 4981, 9346, 13501, 17353, 20815,
       23810, 26270, 28140, 29378, 29956, 29862, 29097, 27678, 25638, 23022, 19889, 16309, 12364, 8140, 3734, -757,
       -5230, -9586, -13726, -17558, -20996, -23963, -26391, -28226, -29428, -29969, -29837, -29034, -27580, -25506, -22860, -19700,
       -16097, -12133, -7897, -3483, 1009, 5478, 9824, 13950, 17762, 21176, 24114, 26510, 28311, 29476, 29979, 29809,
       28970, 27480, 25372, 22695, 19509, 15884, 11902, 7653, 3233, -1261, -5726, -10062, -14173, -17965, -21354, -24263,
       -26627, -28393, -29522, -29988, -29780, -28903, -27377, -25237, -22530, -19316, -15669, -11670, -7409, -2982, 1513, 5973,
       10299, 14394, 18166, 21530, 24410, 26742, 28474, 29566, 29994, 29748, 28835, 27273, 25100, 22362, 19123, 15454,
       11438, 7165, 2731, -1765, -6220, -10536, -14615, -18366, -21705, -24556, -26856, -28552, -29607, -29998, -29715, -28764,
       -27167, -24961, -22193, -18928, -15237, -11204, -6919, -2479, 2016, 6467, 10772, 14835, 18565, 21878, 24700, 26967,
       28629, 29647, 30000, 29679, 28691, 27059, 24820, 22023, 18731, 15019, 10970, 6674, 2228, -2268, -6713, -11007,
       -15054, -18763, -22050, -24842, -27077, -28703, -29685, -30000, -29641, -28617, -26950, -24677, -21851, -18534, -14800, -10734,
       -6428, -1976, 2519, 6958, 11241, 15271, 18959, 22220, 24983, 27184, 28775, 29720, 29997, 29601, 28540, 26838,
       24533, 21677, 18335, 14580, 10499, 6181, 1725, -2770, -7203, -11474, -15488, -19153, -22389, -25122, -27290, -28846,
       -29753, -29993, -29559, -28461, -26724, -24387, -21502, -18134, -14359, -10262, -5934, -1473, 3022, 7448, 11707, 15703,
       19347, 22556, 25259, 27394, 28914, 29785, 29986, 29515, 28380, 26609, 24239, 21325, 17933, 14137, 10025, 5687,
       1221, -3272, -7692, -11939, -15918, -19539, -22721, -25394, -27496, -28980, -29814, -29978, -29469, -28298, -26491, -24090,
       -21147, -17730, -13914, -9786, -5439, -969, 3523, 7936, 12170, 16131, 19730, 22885, 25527, 27596, 29044, 29841,
       29967, 29420, 28213, 26372, 23939, 20968, 17526, 13691 >>

SinTurbidity ==
    << 0, 298, 584, 847, 1076, 1262, 1398, 1478, 1499, 1461, 1364, 1213, 1013, 773, 502, 212,
       -88, -383, -664, -918, -1135, -1307, -1427, -1491, -1494, -1438, -1325, -1159, -947, -697, -419, -125,
       175, 467, 741, 985, 1191, 1348, 1452, 1498, 1484, 1411, 1282, 1102, 877, 618, 334, 37,
       -261, -550, -816, -1050, -1242, -1384, -1471, -1500, -1469, -1379, -1234, -1040, -805, -537, -248, 50,
       347, 630, 888, 1111, 1289, 1416, 1486, 1497, 1448, 1342, 1182, 975, 730, 455, 162, -138,
       -432, -709, -957, -1168, -1331, -1442, -1495, -1489, -1423, -1301, -1126, -907, -652, -370, -74, 225,
       515, 785, 1023, 1221, 1369, 1464, 1500, 1476, 1393, 1255, 1067, 836, 572, 285, -13, -311,
       -596, -858, -1085, -1269, -1403, -1480, -1499, -1458, -1358, -1205, -1003, -762, -490, -199, 101, 396,
       676, 928, 1144, 1314, 1431, 1492, 1493, 1435, 1319, 1151, 937, 685, 406, 111, -188, -480,
       -753, -995, -1199, -1354, -1455, -1498, -1482, -1407, -1275, -1093, -867, -606, -321, -24, 275, 562,
       827, 1059, 1249, 1389, 1474, 1500, 1466, 1374, 1227, 1031, 794, 525, 235, -64, -360, -642,
       -899, -1119, -1295, -1420, -1488, -1496, -1445, -1336, -1174, -965, -718, -442, -148, 151, 445, 720,
       967, 1176, 1337, 1446, 1496, 1487, 1419, 1294, 1118, 897, 640, 358, 61, -238, -527, -796,
       -1033, -1228, -1375, -1467, -1500, -1473, -1388, -1248, -1057, -825, -560, -272, 27, 324, 608, 869,
       1094, 1276, 1407, 1482, 1498, 1455, 1353, 1197, 993, 750, 477, 185, -114, -409, -687, -939,
       -1152, -1320, -1435, -1493, -1492, -1431, -1313, -1142, -926, -673, -394, -98, 201, 492, 764, 1005,
       1206, 1359, 1458, 1499, 1480, 1402, 1268, 1083, 856, 594, 308, 11, -288, -574, -838, -1069,
       -1256, -1394, -1476, -1500, -1463, -1368, -1219, -1021, -782, -512, -222, 77, 373, 654, 909, 1128,
       1302, 1424, 1489, 1495, 1441, 1330, 1166, 955, 706, 429, 135, -164, -457, -732, -977, -1184,
       -1343, -1449, -1497, -1486, -1415, -1287, -1109, -886 >>

SinDo ==
    << 0, 60, 119, 176, 231, 282, 330, 372, 410, 441, 466, 484, 496, 500, 497, 487,
       470, 446, 416, 379, 338, 291, 240, 186, 129, 71, 11, -49, -108, -166, -221, -273,
       -321, -365, -403, -436, -462, -482, -494, -500, -498, -489, -473, -451, -422, -386, -346, -300,
       -250, -196, -140, -81, -22, 38, 98, 156, 212, 264, 313, 358, 397, 430, 458, 479,
       492, 499, 499, 491, 477, 455, 427, 393, 353, 308, 259, 206, 150, 92, 32, -28,
       -87, -145, -202, -255, -305, -350, -390, -425, -453, -475, -490, -499, -500, -493, -480, -460,
       -433, -400, -361, -317, -268, -216, -160, -102, -43, 17, 77, 135, 192, 246, 296, 342,
       383, 419, 449, 472, 488, 498, 500, 495, 483, 464, 438, 406, 368, 325, 277, 226,
       170, 113, 54, -6, -66, -125, -182, -236, -287, -334, -376, -413, -444, -468, -486, -496,
       -500, -496, -486, -468, -443, -412, -375, -333, -286, -235, -181, -123, -65, -5, 55, 114,
       172, 227, 278, 326, 369, 407, 439, 464, 483, 495, 500, 498, 488, 471, 448, 418,
       383, 341, 295, 245, 191, 134, 75, 16, -44, -104, -161, -217, -269, -318, -362, -400,
       -433, -460, -480, -493, -500, -498, -490, -475, -453, -424, -389, -349, -304, -254, -201, -144,
       -86, -26, 34, 93, 151, 207, 260, 309, 354, 394, 428, 456, 477, 492, 499, 499,
       492, 478, 457, 430, 396, 357, 312, 263, 210, 155, 97, 37, -23, -82, -141, -197,
       -251, -301, -347, -387, -422, -451, -474, -490, -498, -500, -494, -481, -462, -435, -403, -364,
       -321, -272, -220, -165, -107, -48, 12, 72, 131, 187, 241, 292, 339, 380, 416, 447,
       470, 487, 497, 500, 496, 484, 466, 440, 409, 371, 329, 281, 230, 175, 118, 59,
       -1, -61, -120, -177, -232, -283, -331, -373, -410, -442, -466, -485, -496, -500, -497, -487,
       -469, -445, -415, -379, -337, -290, -239, -185 >>

(***************************************************************************)
(* The standard-normal stream of numpy's global generator after            *)
(* np.random.seed(42), in thousandths of a standard deviation, in draw     *)
(* order.                                                                  *)
(***************************************************************************)
Seed42Stream ==
    << 497, -138, 648, 1523, -234, -234, 1579, 767, -469, 543, -463, -466, 242, -1913, -1725, -562,
       -1013, 314, -908, -1412, 1466, -226, 68, -1425, -544, 111, -1151, 376, -601, -292, -602, 1852,
       -13, -1058, 823, -1221, 209, -1960, -1328, 197, 738, 171, -116, -301, -1479, -720, -461, 1057,
       344, -1763, 324, -385, -677, 612, 1031, 931, -839, -309, 331, 976, -479, -186, -1106, -1196,
       813, 1356, -72, 1004, 362, -645, 361, 1538, -36, 1565, -2620, 822, 87, -299, 92, -1988,
       -220, 357, 1478, -518, -808, -502, 915, 329, -530, 513, 97, 969, -702, -328, -392, -1464,
       296, 261, 5, -235, -1415, -421, -343, -802, -161, 404, 1886, 175, 258, -74, -1919, -27,
       60, 2463, -192, 302, -35, -1169, 1143, 752, 791, -909, 1403, -1402, 587, 2190, -991, -566,
       100, -503, -1551, 69, -1062, 474, -919, 1550, -783, -322, 814, -1231, 227, 1307, -1607, 185,
       260, 782, -1237, -1320, 522, 297, 250, 346, -680, 232, 293, -714, 1866, 474, -1191, 657,
       -975, 787, 1159, -821, 963, 413, 822, 1897, -245, -754, -890, -816, -77, 341, 277, 827,
       13, 1454, -265, 2720, 626, -857, -1071, 482, -223, 714, 473, -73, -847, -1515, -447, 856,
       214, -1246, 173, 385, -884, 154, 58, -1143, 358, 561, 1083, 1054, -1378, -938, 515, 514,
       515, 3853, 571, 1136, 954, 651, -315, 759, -773, -237, -485, 82, 2315, -1867, 686, -1613,
       -472, 1089, 64, -1078, -715, 680, -730, 216, 46, -652, 2144, 634, -2025, 186, -662, 852,
       -793, -115, 505, 866, -1200, -335, -475, -653, 1765, 405, -1261, 918, 2122, 1032, -1519, -484,
       1267, -708, 444, 775, -927, -60, -3241, -1024, -253, -1248, 1632, -1430, -440, 131, 1441, -1436,
       1163, 10, -982, 462, 199, -600, 70, -385, 114, 662, 1586, -1238, 2133, -1952, -152, 588,
       281, -623, -208, -493, -589, 850, 357, -693, 900, 307, 813, 630, -829, -560, 747, 610,
       -21, 117, 1278, -592, 547, -202, -218, 1099, 825, 814, 1305, 21, 682, -310, 324, -130,
       97, 595, -818, 2092, -1006, -1214, 1158, 792, 624, 628, -12, -897, 76, -677, 975, -147,
       -825, -321, 413, -564, -822, 244, 245, -507, -471, 232, -1448, -1407, -718, -213, 311, 1475,
       858, -160, -19, -1003, -19, -289, 323, -827, 519, 1533, -109, 402, 690, -401, 224, 13,
       98, -773, 25, 498, 1451, 959, 2153, -767, 872, 183, 2190, -808, -840, -599, -2124, -526,
       -759, 150, 342, 1876, 950, -577, -898, 492, -1320, 1831, 1179, -469, -1713, 1354, -115, 1238,
       -1594, -599, 5, 47, -450, 623, -1068, -142, 120, 514, 712, -1125, -1534, 1278, 332, -748,
       1551, 116, 1179, 68, 2061, 1755, -249, 972, 645, 1369, -965, 686, 1058, -1759, -1183, -2039,
       -269, 718, 1502, 74, 1629, -1380, -1703, -56, 384, -33, -2067, -89, -1304, 670, 367, -940,
       -514, -1059, -63, 955, -986, 504, -530, -793, -107, -1035, -554, -1198, 1965, 35, -700, 214,
       -112, -221, 614, 758, -531, -576, -275, -2302, -1515, 1367, 1645, -249, 577, 311, 3079, 1120,
       -128, -956, -1606, 203, -756, -1422, -647, -1082, 1687, 882, -8, 1480, 77, -861, 1523, 539,
       -1037, -190, -876, -1383, 926, 1909, -1399, 563, -651, -487, -592, -864, 49, -831, 270, -50,
       -239, -908, -577, 755, 501, -978, 99, 751, -1669, 543, -663, 571, -763, -1805, -1628, 48,
       260, -904, 639, -1662, -66, -1211, -652, 47, -860, -385, 1006, -577, 836, -1130, 530, 1442,
       -2472, -797, 577, -203, 371, -604, 87, -156, 1168, 254, 338, -412, -488, -433, 394, -421,
       290, 2075, 871, -326, 1201, -408, -2038, -1008, -1871, -352, 18, 1676, 327, -219, 829, -2211,
       236, 771, -1479, 1144, 338, -415, 633, 2271, 182, 248, -459, -850, 830, -856, 72, -478,
       479, 334, 1038, -510, -270, -979, -444, 377, 757, -922, 870, 1356, 413, 1877, -774, -1245,
       -1779, 1496, 654, -56, 280, -1125, 2446, 129, 109, 726, 481, 224, -790, 471, 1882, 1345,
       1593, -511, -990, -126, 56, 1094, -1692, 1530, -158, -427, -1012, -1655, 823, 73, -1290, -1295,
       -336, 1669, -260, -1503, -246, -273, -2697, -54, -231, 696, 1849, 1127, -269, -1107, 2573, 59,
       14, -24, 198, -144, -574, -547, -33, -543, -713, 106, -255, 1504, -2651, 1092, 1246, -2073,
       -343, -371, -1408, -778, -1111, 1752, 936, 1272, 722, -1129, -525, 489, -1222, 713, -240, -375,
       711, 444, -361, 1159, -1081, 616, 593, -310, 326, -1251, 924, -185, -523, 1049, -704, -1408,
       -1557, 606, -1280, 1755, -2082, 1696, 211, -97, -545, 399, -38, 1103, 114, 150, -364, -57,
       308, -1710, -1348, 743, 171, -184, 18, 348, -540, -778, 196, -978, 408, -1703, 1029, 473,
       256, 983, 1665, 1014, -1841, -1280, -625, 26, 518, -726, 187, -755, -612, -1407, -923, -1352,
       -976, 1054, -949, 2632, 493, 185, -858, 700, -576, 122, 2560, -96, 1149, -703, -35, 1771,
       -627, 1812, 708, -562, 632, 973, 622, -1570, -727, -248, -74, 621, 178, -1335, 380, 611,
       560, 1081, 834, 459, -70, -1661, 430, 208, 272, -1277, -1081, 1053, -40, 682, 28, 30,
       938, -516, 96, -462, -434, -309, 222, -479, 1256, -895, -187, -440, 1447, 197, 1032, -1486,
       267, 890, 82, 1065, -517, 1409, 2299, -363, -446, 1453, 1580, -523, -420, -282, -1344, -919,
       -1004, -768, -35, 234, 1551, -998, 984, -214, -49, 675, -1123, 382, 166, 492, 289, 2455,
       -638, -531, -623, -555, -637, 1189, 1421, -571, -832, 471, -552, 633, 203, -1516, 1548, 1796,
       -613, -388, 286, 334, 659, 2010, -177, -798, -1379, -731, -33, 1795, -518, 224, -16, 1188,
       2527, -531, -489, 1044, 682, 1847, 584, -359, 591, 1109, 820, 507, 1067, 1169, 1382, 649,
       -167, 147, 1207, -817, 369, -393, 29, 1278, 191, 46, -1360, 746, 645, 2163, -308, 219,
       249, 1577, -95, 279, 608, 187, -446, 194, 1074, -1027, 133, -700, 1195, -1523, -559, 377,
       1566, -66, -555, 1881, -1448, -2199, 440, -502, -1021, 708, 244, -564, -1280, 872, 650, -99,
       1847, -1070, -1526, -692, -46, 243, -241, 352, -1252, 1444, -82, 1117, 343, 457, 570, 448,
       643, 1329, 197, 709, -90, 1440, -676, 1801, -40, -1431, 128, -681, 841, -653, -446, -1890,
       -452, -2424, -1584, 760, 786, 425, -967, -48, -4, -1158, 1503, 877, -221, 27, 208, -2042,
       -247, -682, -1002, -281, 1798, 641, -571, 573, 1399, 925, 60, -647, 698, 393, 895, 635,
       1050, -535, 1317, 198, 2075, -689, 1736, 198, -651, -484, -320, 424, 523, -574, -24, 2142,
       1728, 436, 38, 120, 614, -1023, -257, -1669, 399, 647, -483, 1574, -1226, -1464, 224, 1047,
       1684, -459, 1079, -39, -173, 884, 652, -1576, 1477, 1380, -626, 396, 494, 261, -550, -672,
       -26, 1173, 544, -371, 772, -2849, 1149, -1740, -362, -1120, -1295, 1161, -468, 347, -47, 477,
       77, -1283, 996, -494, -1557, -428, 1501, 850, -349, -349, -322, 2077, 382, 430, 1030, 239,
       -259, -196, -72, -37, 728, 52, 733, -81, 79, -1998, 916, 346, 998, -2896, 2088, -140,
       1108, -1040, 613, -1053, -624, 1914, -191, 217, 870, 496, 150, 365, 2403, -58, 201, 1051,
       1106, 1187, 639, -1143, 1633, -1146, 303, -754, -64, 329, 321, 422, 1614, 454, -244, 964,
       1189, -1228, 597, 701, -298, 1376, -150, 126, -173, 16, -1096, -1440, 1595, -847, -991, -2153,
       -639, -1323, 1642, 1010, -688, 2252, 982, -325, -2499, 2291, -1390, -1645, 1023, 2440, 1384, 564,
       595, 853, 759, 281, 104, -63, -754, -281, -1693, -98, -989, -1104, 180, 1392, 918, -1571,
       -990, 941, -982, -225, 550, -968, 105, -1334, -601, 320, -1593, 440, -20, 552, 224, 1364,
       125, -429, 122, 543, 49, 41, -702, -663, -1403, 1750, -1244, -693, -718, 895, -295, 1248,
       -673, 279, -835, 2145, -1188, 310, 634, 414, -185, -130, 44, -147, 964, 2211, -557, -1370,
       -88, 2580, -804, 1639, 1678, -554, 569, 1628, -379, -204, -582, -1015, -649, -1224, 34, -770 >>

(***************************************************************************)
(* pd.date_range(start='2000-01-01', end='2025-11-03', freq='M'): the      *)
(* month-end dates d with start <= d <= end, in order.                     *)
(***************************************************************************)
IsLeap(y) == (y % 4 = 0 /\ y % 100 # 0) \/ y % 400 = 0

DaysInMonth(y, m) ==
    IF m = 2 THEN (IF IsLeap(y) THEN 29 ELSE 28)
    ELSE IF m \in {4, 6, 9, 11} THEN 30 ELSE 31

Ordinal(d) == d.year * 10000 + d.month * 100 + d.day

StartDate == [year |-> 2000, month |-> 1, day |-> 1]

\* an end date one year earlier
EndDate_2024 == [year |-> 2024, month |-> 11, day |-> 3]

EndDate == [year |-> 2025, month |-> 11, day |-> 3]

MonthEnd(y, m) == [year |-> y, month |-> m, day |-> DaysInMonth(y, m)]

MonthStart(y, m) == [year |-> y, month |-> m, day |-> 1]

\* the date of month (y, m) that frequency freq names: 'M' its last day, 'MS' its first
Anchor(freq, y, m) == IF freq = "M" THEN MonthEnd(y, m) ELSE MonthStart(y, m)

\* the months from the start date's to the end date's, as year * 12 + (month - 1)
MonthsSpanned ==
    [k \in 1..((EndDate.year * 12 + EndDate.month) - (StartDate.year * 12 + StartDate.month) + 1)
        |-> StartDate.year * 12 + (StartDate.month - 1) + (k - 1)]

\* the anchor dates of those months that lie in [StartDate, EndDate], in order
Offsets(freq) ==
    SelectSeq([k \in 1..Len(MonthsSpanned) |->
                   Anchor(freq, MonthsSpanned[k] \div 12, (MonthsSpanned[k] % 12) + 1)],
              LAMBDA d : Ordinal(StartDate) <= Ordinal(d) /\ Ordinal(d) <= Ordinal(EndDate))

\* the same call with freq='MS' (month starts)
date_range_MS == Offsets("MS")

date_range == Offsets("M")

dates == date_range

n == Len(dates)

(***************************************************************************)
(* The noise.  np.random.normal(0, s, n) is called four times after the    *)
(* seed is set: n draws for pH, then n for TDS, n for turbidity, n for     *)
(* dissolved oxygen.  A normal draw can be any real number; the model      *)
(* takes the four blocks from NProfiles sequences: the stream seed 42      *)
(* gives (profile 1), and sequences that put the raw readings on the       *)
(* probe values below, which cover the clip bounds, the label thresholds   *)
(* and both tails of pH.                                                   *)
(***************************************************************************)
Probes ==
    << [pH |-> 7500,  TDS |-> 370000, Turbidity |-> 2000, DO |-> 7000],
       [pH |-> 7000,  TDS |-> 450000, Turbidity |-> 4000, DO |-> 5000],
       [pH |-> 8500,  TDS |-> 300000, Turbidity |-> 5000, DO |-> 6000],
       [pH |-> 8501,  TDS |-> 299999, Turbidity |-> 4999, DO |-> 9500],
       [pH |-> 6500,  TDS |-> 100000, Turbidity |-> 100,  DO |-> 3000],
       [pH |-> 6499,  TDS |-> 700000, Turbidity |-> 9000, DO |-> 10000],
       [pH |-> -1000, TDS |-> 700000, Turbidity |-> 9000, DO |-> 3000],
       [pH |-> 7500,  TDS |-> 369995, Turbidity |-> 2000, DO |-> 7000],
       [pH |-> 7000,  TDS |-> 449995, Turbidity |-> 4000, DO |-> 5000],
       [pH |-> 7500,  TDS |-> 200000, Turbidity |-> 500,  DO |-> 9000],
       [pH |-> 16000, TDS |-> 150000, Turbidity |-> 500,  DO |-> 9000] >>

ProbeAt(k, i) == Probes[((i + k) % Len(Probes)) + 1]

Seed42Noise(len) ==
    [pH        |-> [i \in 1..len |-> (3 * Seed42Stream[i]) \div 10],
     TDS       |-> [i \in 1..len |-> 50 * Seed42Stream[len + i]],
     Turbidity |-> [i \in 1..len |-> Seed42Stream[2 * len + i]],
     DO        |-> [i \in 1..len |-> (8 * Seed42Stream[3 * len + i]) \div 10]]

ProbeNoise(k, len) ==
    [pH        |-> [i \in 1..len |-> ProbeAt(k, i).pH - 7500 - SinPh[i]],
     TDS       |-> [i \in 1..len |-> ProbeAt(k, i).TDS - 250000 - SinTds[i]],
     Turbidity |-> [i \in 1..len |-> ProbeAt(k, i).Turbidity - 2000 - SinTurbidity[i]],
     DO        |-> [i \in 1..len |-> ProbeAt(k, i).DO - 7000 + SinDo[i]]]

NoiseProfiles(len) ==
    { IF k = 1 THEN Seed42Noise(len) ELSE ProbeNoise(k, len) : k \in 1..NProfiles }

(***************************************************************************)
(* generate_water_quality_data, element by element.                        *)
(***************************************************************************)
Abs(x) == IF x < 0 THEN -x ELSE x

\* np.maximum(x, lo) alone: the upper bound is dropped
ClipLowerOnly(x, lo, hi) == IF x < lo THEN lo ELSE x

\* np.clip(x, lo, hi)
Clip(x, lo, hi) == IF x < lo THEN lo ELSE IF x > hi THEN hi ELSE x

ph(z, i) == 7500 + z + SinPh[i]

tds(z, i) == Clip(250000 + z + SinTds[i], 150000, 600000)

turbidity(z, i) == Clip(2000 + z + SinTurbidity[i], 500, 8000)

do(z, i) == Clip(7000 + z - SinDo[i], 4000, 9000)

ph_score(p) == 100000000 - Abs(7500 - p) * 20000

tds_score(t) == Clip(100000000 - (t - 200000) * 200, 0, 100000000)

turbidity_score(t) == Clip(100000000 - t * 15000, 0, 100000000)

do_score(d) == Clip(d * 12000, 0, 100000000)

quality_score(p, t, u, d) ==
    (ph_score(p) + tds_score(t) + turbidity_score(u) + do_score(d)) \div 4

Row(z, i) ==
    LET p == ph(z.pH[i], i)
        t == tds(z.TDS[i], i)
        u == turbidity(z.Turbidity[i], i)
        d == do(z.DO[i], i)
    IN  [Date |-> dates[i], pH |-> p, TDS |-> t, Turbidity |-> u, DO |-> d,
         Quality |-> quality_score(p, t, u, d)]

generate_water_quality_data(z) == [i \in 1..n |-> Row(z, i)]

(***************************************************************************)
(* @st.cache_data: the first call computes and stores the Series, every    *)
(* later call returns the stored one.                                      *)
(***************************************************************************)
cache_data(c, z) == IF c = << >> THEN generate_water_quality_data(z) ELSE c[1]

(***************************************************************************)
(* The sidebar slider: a range slider on [min_value, max_value], initial   *)
(* value (2000, 2025).  Whatever positions the thumbs are dragged to, the  *)
(* widget delivers a pair inside its ends.                                 *)
(***************************************************************************)
min_value == 2000

max_value == 2025

value == << min_value, max_value >>

\* a slider that passes the requested positions on as they are
slider_unbounded(req) == req

slider(req) == << Clip(req[1], min_value, max_value), Clip(req[2], min_value, max_value) >>

\* the positions a thumb can be asked to take: the track and a little beyond its ends
Positions == (min_value - YearSlack)..(max_value + YearSlack)

Parameters == { "pH", "TDS (mg/L)", "Turbidity (NTU)", "Dissolved Oxygen (mg/L)" }

(***************************************************************************)
(* Lines 67-69: the boolean mask over the rows and the rows it selects.    *)
(***************************************************************************)
\* the mask with a strict upper comparison
mask_strict(d, yr) ==
    [i \in 1..Len(d) |-> d[i].Date.year >= yr[1] /\ d[i].Date.year < yr[2]]

mask(d, yr) ==
    [i \in 1..Len(d) |-> d[i].Date.year >= yr[1] /\ d[i].Date.year <= yr[2]]

\* d[m]: the rows of d whose mask entry is TRUE, in d's order
BoolIndex(d, m) ==
    LET kept == SelectSeq([i \in 1..Len(d) |-> i], LAMBDA i : m[i])
    IN  [k \in 1..Len(kept) |-> d[kept[k]]]

\* the statement written as df = df[mask]: the Series is overwritten by the view
FilterInPlace(d, yr) ==
    LET view == BoolIndex(d, mask(d, yr))
    IN  [df |-> view, filtered_df |-> view]

\* what lines 68-69 leave in df and filtered_df
FilterStep(d, yr) == [df |-> d, filtered_df |-> BoolIndex(d, mask(d, yr))]

(***************************************************************************)
(* Line 75: filtered_df.iloc[-1].  pandas raises IndexError ("single       *)
(* positional indexer is out-of-bounds") on a frame without rows.          *)
(***************************************************************************)
\* iloc[0]: the first row instead of the last
iloc_first(f) ==
    IF Len(f) = 0 THEN [error |-> "IndexError", row |-> << >>]
    ELSE [error |-> "none", row |-> << f[1] >>]

iloc_last(f) ==
    IF Len(f) = 0 THEN [error |-> "IndexError", row |-> << >>]
    ELSE [error |-> "none", row |-> << f[Len(f)] >>]

(***************************************************************************)
(* Lines 77-92: the qualitative labels (the delta of each st.metric).      *)
(***************************************************************************)
ph_delta(p) == IF 6500 <= p /\ p <= 8500 THEN "Optimal" ELSE "Outside Range"

tds_delta(t) == IF t < 300000 THEN "Good" ELSE "Moderate"

turbidity_delta(u) == IF u < 5000 THEN "Clear" ELSE "Cloudy"

\* the thresholds compared with >= instead of >
status_inclusive(q) ==
    IF q >= 80000000 THEN "Excellent" ELSE IF q >= 60000000 THEN "Good" ELSE "Fair"

status(q) ==
    IF q > 80000000 THEN "Excellent" ELSE IF q > 60000000 THEN "Good" ELSE "Fair"

(***************************************************************************)
(* The state after construction: nothing cached, the widgets at their      *)
(* initial values, the script about to run for the first time.             *)
(***************************************************************************)
Init ==
    /\ noise \in NoiseProfiles(n)
    /\ cache = << >>
    /\ slider_value = value
    /\ selectbox_value = "pH"
    /\ requested = value
    /\ df = << >>
    /\ year_range = << >>
    /\ filtered_df = << >>
    /\ latest = << >>
    /\ metrics = << >>
    /\ parameter = << >>
    /\ error = "none"
    /\ pc = "load"

(***************************************************************************)
(* One run of the script, statement by statement.                          *)
(***************************************************************************)
\* line 56
Load ==
    /\ pc = "load"
    /\ df' = cache_data(cache, noise)
    /\ cache' = << cache_data(cache, noise) >>
    /\ pc' = "slider"
    /\ UNCHANGED << noise, slider_value, selectbox_value, requested, year_range,
                    filtered_df, latest, metrics, parameter, error >>

\* lines 60-65
Slider ==
    /\ pc = "slider"
    /\ year_range' = slider_value
    /\ pc' = "filter"
    /\ UNCHANGED << noise, cache, slider_value, selectbox_value, requested, df,
                    filtered_df, latest, metrics, parameter, error >>

\* lines 68-69
Filter ==
    /\ pc = "filter"
    /\ df' = FilterStep(df, year_range).df
    /\ filtered_df' = FilterStep(df, year_range).filtered_df
    /\ pc' = "latest"
    /\ UNCHANGED << noise, cache, slider_value, selectbox_value, requested,
                    year_range, latest, metrics, parameter, error >>

\* line 75: an exception ends the run
Latest ==
    /\ pc = "latest"
    /\ latest' = iloc_last(filtered_df).row
    /\ error' = iloc_last(filtered_df).error
    /\ pc' = IF iloc_last(filtered_df).error = "none" THEN "metrics" ELSE "error"
    /\ UNCHANGED << noise, cache, slider_value, selectbox_value, requested, df,
                    year_range, filtered_df, metrics, parameter >>

\* lines 77-92
Metrics ==
    /\ pc = "metrics"
    /\ metrics' = << [pH        |-> ph_delta(latest[1].pH),
                      TDS       |-> tds_delta(latest[1].TDS),
                      Turbidity |-> turbidity_delta(latest[1].Turbidity),
                      Quality   |-> status(latest[1].Quality)] >>
    /\ pc' = "render"
    /\ UNCHANGED << noise, cache, slider_value, selectbox_value, requested, df,
                    year_range, filtered_df, latest, parameter, error >>

\* lines 94-149: the charts and tables read filtered_df; the selectbox gives parameter
Render ==
    /\ pc = "render"
    /\ parameter' = << selectbox_value >>
    /\ pc' = "done"
    /\ UNCHANGED << noise, cache, slider_value, selectbox_value, requested, df,
                    year_range, filtered_df, latest, metrics, error >>

(***************************************************************************)
(* A widget interaction: the widget's state changes and Streamlit runs the *)
(* script again from the top, with fresh script variables.                 *)
(***************************************************************************)
Rerun ==
    /\ df' = << >>
    /\ year_range' = << >>
    /\ filtered_df' = << >>
    /\ latest' = << >>
    /\ metrics' = << >>
    /\ parameter' = << >>
    /\ error' = "none"
    /\ pc' = "load"

\* the user drags one thumb of the range slider; the thumbs do not cross
MoveSlider ==
    /\ pc \in { "done", "error" }
    /\ \E thumb \in { 1, 2 }, pos \in Positions :
          LET req == [slider_value EXCEPT ![thumb] = pos]
          IN  /\ req[1] <= req[2]
              /\ slider(req) # slider_value
              /\ requested' = req
              /\ slider_value' = slider(req)
    /\ Rerun
    /\ UNCHANGED << noise, cache, selectbox_value >>

SelectParameter ==
    /\ pc \in { "done", "error" }
    /\ \E p \in Parameters :
          /\ p # selectbox_value
          /\ selectbox_value' = p
    /\ Rerun
    /\ UNCHANGED << noise, cache, slider_value, requested >>

Next ==
    \/ Load
    \/ Slider
    \/ Filter
    \/ Latest
    \/ Metrics
    \/ Render
    \/ MoveSlider
    \/ SelectParameter

Spec == Init /\ [][Next]_vars

(***************************************************************************)
(* Lines 67-92 as a function of the Series and of any pair of years: the   *)
(* Series is loaded, year_range is any pair of integers around the         *)
(* slider's range (ordered or not), and the statements run once.           *)
(***************************************************************************)
InitFn ==
    /\ noise \in NoiseProfiles(n)
    /\ cache = << generate_water_quality_data(noise) >>
    /\ slider_value = value
    /\ selectbox_value = "pH"
    /\ requested = value
    /\ df = cache[1]
    /\ year_range \in Positions \X Positions
    /\ filtered_df = << >>
    /\ latest = << >>
    /\ metrics = << >>
    /\ parameter = << >>
    /\ error = "none"
    /\ pc = "filter"

NextFn ==
    \/ Filter
    \/ Latest
    \/ Metrics
    \/ Render

SpecFn == InitFn /\ [][NextFn]_vars

(***************************************************************************)
(* The claims.                                                             *)
(***************************************************************************)
\* the positions at which lines 68-69 have run in the current run
AfterFilter == { "latest", "metrics", "render", "done", "error" }

InYears(row, lo, hi) == lo <= row.Date.year /\ row.Date.year <= hi

C2_RangeInvariants ==
    \A f \in { df, filtered_df } : \A i \in 1..Len(f) :
        /\ 150000 <= f[i].TDS /\ f[i].TDS <= 600000
        /\ 500 <= f[i].Turbidity /\ f[i].Turbidity <= 8000
        /\ 4000 <= f[i].DO /\ f[i].DO <= 9000

\* a filtered view holds a sample whose raw TDS was above 600 and one whose raw
\* dissolved oxygen was below 4, both brought back to the bound
C2_Witness ==
    /\ pc = "done"
    /\ \E i \in 1..Len(df) :
          /\ 250000 + noise.TDS[i] + SinTds[i] > 600000
          /\ \E j \in 1..Len(filtered_df) : filtered_df[j] = df[i] /\ filtered_df[j].TDS = 600000
    /\ \E i \in 1..Len(df) :
          /\ 7000 + noise.DO[i] - SinDo[i] < 4000
          /\ \E j \in 1..Len(filtered_df) : filtered_df[j] = df[i] /\ filtered_df[j].DO = 4000

\* the calendar's last day of month m in a year whose February has feb days
LastDay(m, feb) == IF m = 2 THEN feb ELSE IF m \in {4, 6, 9, 11} THEN 30 ELSE 31

\* one sample per calendar month-end from 2000-01-31 to 2025-10-31, strictly
\* increasing by date
MonthEndSeries(d) ==
    /\ d[1].Date = [year |-> 2000, month |-> 1, day |-> 31]
    /\ d[Len(d)].Date = [year |-> 2025, month |-> 10, day |-> 31]
    /\ d[2].Date = [year |-> 2000, month |-> 2, day |-> 29]
    /\ d[14].Date = [year |-> 2001, month |-> 2, day |-> 28]
    /\ \A i \in 1..Len(d) :
          /\ d[i].Date.year = 2000 + ((i - 1) \div 12)
          /\ d[i].Date.month = ((i - 1) % 12) + 1
          /\ d[i].Date.day = LastDay(d[i].Date.month, d[i].Date.day)
          /\ d[i].Date.day \in 28..31
    /\ \A i \in 1..(Len(d) - 1) : Ordinal(d[i].Date) < Ordinal(d[i + 1].Date)

\* C3 as stated: the Series is the month-end series 2000-01-31 .. 2025-10-31 and
\* has 311 samples.
C3_Length311 == df # << >> => (MonthEndSeries(df) /\ Len(df) = 311)

\* C3 amended: the Series is the month-end series 2000-01-31 .. 2025-10-31 and
\* has 310 samples.
C3_Length310 == df # << >> => (MonthEndSeries(df) /\ Len(df) = 310)

C3_Witness ==
    /\ pc = "slider"
    /\ Len(df) = 310
    /\ df[310].Date = [year |-> 2025, month |-> 10, day |-> 31]

\* C4: the filtered view is the contiguous run of the Series, in order, of the
\* samples whose year is in [start_year, end_year]; (2000, 2025) gives the whole
\* Series, (Y, Y) the 12 samples of year Y (the 10 of 2025, the last year).
C4_FilterIsYearSlice ==
    pc \in AfterFilter =>
        LET lo == year_range[1]
            hi == year_range[2]
            a  == IF lo < 2000 THEN 1 ELSE 12 * (lo - 2000) + 1
            b  == IF 12 * (hi - 2000) + 12 < Len(df) THEN 12 * (hi - 2000) + 12 ELSE Len(df)
        IN  /\ filtered_df = IF a <= b THEN SubSeq(df, a, b) ELSE << >>
            /\ \A i \in 1..Len(df) : InYears(df[i], lo, hi) <=> (a <= i /\ i <= b)
            /\ (lo = 2000 /\ hi = 2025) => filtered_df = df
            /\ (lo = hi /\ 2000 <= lo /\ lo <= 2025) =>
                  /\ Len(filtered_df) = IF lo = 2025 THEN 10 ELSE 12
                  /\ \A j \in 1..Len(filtered_df) : filtered_df[j].Date.year = lo

C4_Witness ==
    /\ pc = "latest"
    /\ year_range = << 2010, 2010 >>
    /\ Len(filtered_df) = 12
    /\ filtered_df[1].Date = [year |-> 2010, month |-> 1, day |-> 31]
    /\ filtered_df[12].Date = [year |-> 2010, month |-> 12, day |-> 31]

C7_Labels ==
    metrics # << >> =>
        LET r == latest[1]
            m == metrics[1]
        IN  /\ m.pH = IF 6500 <= r.pH /\ r.pH <= 8500 THEN "Optimal" ELSE "Outside Range"
            /\ m.TDS = IF r.TDS < 300000 THEN "Good" ELSE "Moderate"
            /\ m.Turbidity = IF r.Turbidity < 5000 THEN "Clear" ELSE "Cloudy"
            /\ m.Quality = "Excellent" <=> r.Quality > 80000000
            /\ m.Quality = "Good" <=> (60000000 < r.Quality /\ r.Quality <= 80000000)
            /\ m.Quality = "Fair" <=> r.Quality <= 60000000

\* a latest reading whose score is exactly 80 is labelled Good
C7_Witness ==
    /\ metrics # << >>
    /\ latest[1].Quality = 80000000
    /\ metrics[1].Quality = "Good"

\* C8: once generated, the cached Series never changes, and in every run df is
\* that Series from line 56 on, whatever the user has done to the widgets.
C8_SeriesNeverMutated ==
    [][ /\ cache # << >> => cache' = cache
        /\ df' # << >> => (cache' # << >> /\ df' = cache'[1]) ]_vars

\* a run has finished after the slider and the selectbox were both changed
C8_Witness ==
    /\ pc = "done"
    /\ slider_value # value
    /\ selectbox_value # "pH"
    /\ df = cache[1]
    /\ Len(filtered_df) < Len(df)

\* C9: the latest reading is the last sample of the filtered view, the sample of
\* greatest date among the samples of the Series whose year is in range; it is
\* the last sample of year end_year, whatever start_year is.
C9_LatestIsLast ==
    latest # << >> =>
        LET hi   == year_range[2]
            last == IF 12 * (hi - 2000) + 12 < Len(df) THEN 12 * (hi - 2000) + 12 ELSE Len(df)
        IN  /\ latest[1] = filtered_df[Len(filtered_df)]
            /\ InYears(latest[1], year_range[1], hi)
            /\ \A i \in 1..Len(df) :
                  InYears(df[i], year_range[1], hi)
                      => Ordinal(df[i].Date) <= Ordinal(latest[1].Date)
            /\ latest[1] = df[last]

C9_Witness ==
    /\ pc = "metrics"
    /\ year_range[1] < year_range[2]
    /\ Len(filtered_df) > 12
    /\ latest[1].Date.year = year_range[2]
    /\ latest[1].Date # filtered_df[1].Date

\* C10: for every pair the slider delivers the filtered view has a sample, and
\* filtered_df.iloc[-1] never runs on an empty view.
C10_SelectionNeverEmpty ==
    /\ error = "none"
    /\ pc # "error"
    /\ pc \in AfterFilter => Len(filtered_df) >= 1
    /\ year_range # << >> =>
          (2000 <= year_range[1] /\ year_range[1] <= year_range[2] /\ year_range[2] <= 2025)

\* the smallest view: the ten samples of 2025
C10_Witness ==
    /\ pc = "metrics"
    /\ year_range = << 2025, 2025 >>
    /\ Len(filtered_df) = 10
    /\ latest # << >>
====
